---- MODULE Spec2Model ----
(***************************************************************************)
(* Model of the 'symbolic' name interning library: the bump-allocating     *)
(* NameAllocator (src/src/names.cpp, include/symbolic/names.hpp), the      *)
(* hash-bucket chains and the three static constructors of Name            *)
(* (add, find, find_or_add) called by several threads.                     *)
(*                                                                         *)
(* Strings are sequences of byte values.  Addresses are integers: block k  *)
(* handed out by the IAllocator starts at BlockBase(k), nullptr is 0.      *)
(* 32-bit hashes are kept as <<high 16 bits, low 16 bits>>.                *)
(* Every read or write of memory that another thread may access without    *)
(* the mutex is a step of its own, in program order.                       *)
(***************************************************************************)
EXTENDS Integers, Sequences, FiniteSets, TLC

(* ---- bounds of the model ---- *)
NumThreads == 2
MaxCalls == 3
\* Scaled stand-ins for the two capacity constants of NameAllocator
\* (2 MiB and 32 in the source), small enough for arenas to fill up.
MaxArenaBytes == 39
MaxArenas == 2

Threads == 1..NumThreads

(* ---- program constants ---- *)
MAX_LENGTH == 512
MAX_ARENA_SIZE == MaxArenaBytes
MAX_ARENA_COUNT == MaxArenas
HASH_BUCKETS == 65536
meta_size == 16
NULL == 0

(* ---- inputs ---- *)
\* "ai", "AI" (case variant), "g/" (same 32-bit hash as "ai"),
\* "3d_" (other hash, same bucket as "ai"), "ab" (other bucket).
s_ai == <<97, 105>>
s_AI == <<65, 73>>
s_g == <<103, 47>>
s_3d == <<51, 100, 95>>
s_ab == <<97, 98>>
Strings == {s_ai, s_AI, s_g, s_3d, s_ab}
\* Strings the three constructors reject: "a" followed by the byte 0xC8, and
\* a string of MAX_LENGTH letters 'a'.
s_nonascii == <<97, 200>>
s_long == [i \in 1..MAX_LENGTH |-> 97]
InvalidStrings == {s_nonascii, s_long}
\* Call arguments: a string_view and the byte that follows it in the caller's
\* buffer.  String literals are followed by their terminator; one view is cut
\* out of the longer buffer "abX".
Args == {<<s, 0>> : s \in Strings \cup InvalidStrings} \cup {<<s_ab, 88>>}

(* ---- utils ---- *)
is_ascii(ch) == ch >= 0 /\ ch <= 127

is_fully_ascii(s) == \A i \in 1..Len(s) : is_ascii(s[i])

is_upper_alpha_ascii(ch) == ch >= 65 /\ ch <= 90

to_lower_ascii(ch) == IF is_upper_alpha_ascii(ch) THEN ch + (97 - 65) ELSE ch

RECURSIVE BitXor(_, _)
BitXor(a, b) ==
    IF a = 0 THEN b
    ELSE IF b = 0 THEN a
    ELSE (((a % 2) + (b % 2)) % 2) + 2 * BitXor(a \div 2, b \div 2)

\* one round of the loop body: hash = ((hash << 5) + hash) ^ ch, modulo 2^32
hash_step(h, ch) ==
    LET lo33 == h[2] * 33
        hi33 == h[1] * 33 + (lo33 \div 65536)
    IN  <<hi33 % 65536, BitXor(lo33 % 65536, ch)>>

RECURSIVE hash_loop(_, _, _)
hash_loop(h, data, u) ==
    IF u > Len(data) THEN h
    ELSE hash_loop(hash_step(h, to_lower_ascii(data[u])), data, u + 1)

\* 5381 = 0 * 65536 + 5381
hash_ascii_ci(data) == hash_loop(<<0, 5381>>, data, 1)

HashOf == [s \in Strings |-> hash_ascii_ci(s)]

\* hash % HASH_BUCKETS on the split representation
BucketOf(h) == (((h[1] % HASH_BUCKETS) * (65536 % HASH_BUCKETS)) + h[2]) % HASH_BUCKETS

Buckets == {BucketOf(HashOf[s]) : s \in Strings}

(* ---- state ---- *)
VARIABLES
    m_arena_count,  \* NameAllocator::m_arena_count
    m_arena_fill,   \* NameAllocator::m_arena_fill
    mp_arenas,      \* NameAllocator::mp_arenas, arena index -> base address
    mp_buckets,     \* NameAllocator::mp_buckets, bucket -> address of head chunk
    mem,            \* arena memory, chunk address -> NameChunk
    m_ctor_mtx,     \* NameAllocator::m_ctor_mtx, 0 or the thread that owns it
    alloc_blocks,   \* IAllocator: number of blocks handed out so far
    freed,          \* IAllocator: the pointers passed to deallocate, in order
    alive,          \* the global NameAllocator has not been destroyed yet
    pc,             \* per thread: position in the running call
    op,             \* per thread: the call being run
    str,            \* per thread: argument 'str'
    after,          \* per thread: the byte behind str in the caller's buffer
    chain,          \* per thread: local 'chain'
    new_chunk,      \* per thread: local 'new_chunk' of add_name
    failure,        \* "none", or the kind of the SYMBL_FAIL that aborted the process
    last,           \* per thread: what its previous call returned to the caller
    calls,          \* number of calls begun
    snap            \* pool and index as they were when the mutex was taken

vars == <<m_arena_count, m_arena_fill, mp_arenas, mp_buckets, mem, m_ctor_mtx,
          alloc_blocks, freed, alive, pc, op, str, after, chain, new_chunk, failure, last,
          calls, snap>>

shared == <<m_arena_count, m_arena_fill, mp_arenas, mp_buckets, mem>>
locals == <<op, str, after, chain, new_chunk>>
ghost == <<last, calls>>
life == <<freed, alive>>

(* ---- memory ---- *)
\* base address of the k-th block returned by IAllocator::allocate
BlockBase(k) == k * MAX_ARENA_SIZE

\* std::fill_n(new_arena, MAX_ARENA_SIZE, 0u): an untouched chunk reads as zeros
ZeroChunk ==
    [mp_hash_next |-> NULL, m_hash |-> <<0, 0>>, m_length |-> 0,
     m_arena_id |-> 0, m_flags |-> 0, m_data |-> <<>>]

Chunk(a) == IF a \in DOMAIN mem THEN mem[a] ELSE ZeroChunk

MemWrite(a, f, v) ==
    IF a \in DOMAIN mem THEN [mem EXCEPT ![a][f] = v]
    ELSE mem @@ (a :> [ZeroChunk EXCEPT ![f] = v])

ArenaAt(i) == IF i \in DOMAIN mp_arenas THEN mp_arenas[i] ELSE NULL

hash(t) == HashOf[str[t]]
bucket(t) == BucketOf(hash(t))
entry_size(t) == meta_size + (Len(str[t]) + 1)

(* ---- chain walks made while holding the mutex ---- *)
RECURSIVE ChainTail(_)
ChainTail(a) ==
    IF Chunk(a).mp_hash_next = NULL THEN a ELSE ChainTail(Chunk(a).mp_hash_next)

\* the loop of Name::add: only entries that have a successor are compared
RECURSIVE add_walk_hits(_, _)
add_walk_hits(a, h) ==
    IF Chunk(a).mp_hash_next = NULL THEN FALSE
    ELSE (Chunk(a).m_hash = h) \/ add_walk_hits(Chunk(a).mp_hash_next, h)

(* ---- Name ---- *)
\* NameOf with the arena index left at zero
NameOf_NoArena(c) ==
    LET idx == Chunk(c).m_arena_id % 256
    IN  [m_offset |-> c - ArenaAt(idx), m_arena_index |-> 0]

\* Name::Name(NameChunk const*): 8-bit arena index, 56-bit offset
NameOf(c) ==
    LET idx == Chunk(c).m_arena_id % 256
    IN  [m_offset |-> c - ArenaAt(idx), m_arena_index |-> idx]

\* the two SYMBL_ASSERT_S of the constructor (a negative difference is a
\* huge unsigned offset)
NameAsserts(c) ==
    /\ NameOf(c).m_arena_index <= m_arena_count
    /\ NameOf(c).m_offset >= 0
    /\ NameOf(c).m_offset <= MAX_ARENA_SIZE

\* Name::operator==: one comparison of the 8 bytes holding both bit-fields
NameEq(a, b) == a.m_offset = b.m_offset /\ a.m_arena_index = b.m_arena_index

\* Name::get_entry: address of the chunk a handle designates
get_entry(n) == ArenaAt(n.m_arena_index) + n.m_offset

\* the first n bytes of c->m_data; bytes not written yet are the zeros of fill_n
DataBytes(c, n) ==
    [i \in 1..n |-> IF i <= Len(Chunk(c).m_data) THEN Chunk(c).m_data[i] ELSE 0]

\* Name::str(): { m_data, m_length }
NameStr(n) == DataBytes(get_entry(n), Chunk(get_entry(n)).m_length)

\* a thread that has not been handed a Name yet holds Name::empty()
NoResult == [op |-> "none", str |-> <<>>, h |-> [m_offset |-> 0, m_arena_index |-> 0],
             chunk |-> NULL]

(* ---- Init: the allocator after its constructor ---- *)
Init ==
    /\ m_arena_count = 1
    /\ m_arena_fill = 0
    /\ mp_arenas = [i \in 0..(MAX_ARENA_COUNT - 1) |-> IF i = 0 THEN BlockBase(1) ELSE NULL]
    /\ mp_buckets = [b \in Buckets |-> NULL]
    /\ mem = <<>>
    /\ m_ctor_mtx = 0
    /\ alloc_blocks = 1
    /\ freed = <<>>
    /\ alive = TRUE
    /\ pc = [t \in Threads |-> "idle"]
    /\ op = [t \in Threads |-> "none"]
    /\ str = [t \in Threads |-> <<>>]
    /\ after = [t \in Threads |-> 0]
    /\ chain = [t \in Threads |-> NULL]
    /\ new_chunk = [t \in Threads |-> NULL]
    /\ failure = "none"
    /\ last = [t \in Threads |-> NoResult]
    /\ calls = 0
    /\ snap = <<>>

Running(t, p) == failure = "none" /\ pc[t] = p

Goto(t, p) == pc' = [pc EXCEPT ![t] = p]

Fail(kind) == failure' = kind

(* ---- entry of the three static constructors ---- *)
\* Enter without the assertion on str.size()
Enter_LengthUnchecked(t, o, s, b, first) ==
    /\ Running(t, "idle")
    /\ alive
    /\ calls < MaxCalls
    /\ calls' = calls + 1
    /\ op' = [op EXCEPT ![t] = o]
    /\ str' = [str EXCEPT ![t] = s]
    /\ after' = [after EXCEPT ![t] = b]
    /\ IF is_fully_ascii(s)
         THEN Goto(t, first) /\ UNCHANGED failure
         ELSE Fail("InvalidInput") /\ UNCHANGED pc
    /\ UNCHANGED <<shared, m_ctor_mtx, life, alloc_blocks, chain, new_chunk, last, snap>>

\* the two SYMBL_ASSERTs, then hash and bucket
Enter(t, o, s, b, first) ==
    /\ Running(t, "idle")
    /\ alive
    /\ calls < MaxCalls
    /\ calls' = calls + 1
    /\ op' = [op EXCEPT ![t] = o]
    /\ str' = [str EXCEPT ![t] = s]
    /\ after' = [after EXCEPT ![t] = b]
    /\ IF is_fully_ascii(s) /\ Len(s) < MAX_LENGTH
         THEN Goto(t, first) /\ UNCHANGED failure
         ELSE Fail("InvalidInput") /\ UNCHANGED pc
    /\ UNCHANGED <<shared, m_ctor_mtx, life, alloc_blocks, chain, new_chunk, last, snap>>

add_call(t, s, b) == Enter(t, "add", s, b, "lock")

find_call(t, s, b) == Enter(t, "find", s, b, "head")

find_or_add_call(t, s, b) == Enter(t, "find_or_add", s, b, "head")

(* ---- the lock-free chain scan of find and find_or_add ---- *)
\* ScanHead that waits for the mutex to be free
ScanHead_Locked(t) ==
    /\ Running(t, "head")
    /\ m_ctor_mtx = 0
    /\ chain' = [chain EXCEPT ![t] = mp_buckets[bucket(t)]]
    /\ Goto(t, "test")
    /\ UNCHANGED <<shared, m_ctor_mtx, life, alloc_blocks, op, str, after, new_chunk,
                   failure, ghost, snap>>

\* chain = mp_buckets[bucket]
ScanHead(t) ==
    /\ Running(t, "head")
    /\ chain' = [chain EXCEPT ![t] = mp_buckets[bucket(t)]]
    /\ Goto(t, "test")
    /\ UNCHANGED <<shared, m_ctor_mtx, life, alloc_blocks, op, str, after, new_chunk,
                   failure, ghost, snap>>

\* ScanTest that takes the first entry of the bucket without comparing hashes
ScanTest_FirstEntry(t, miss) ==
    /\ Running(t, "test")
    /\ IF chain[t] = NULL THEN Goto(t, miss) ELSE Goto(t, "hit")
    /\ UNCHANGED <<shared, m_ctor_mtx, life, alloc_blocks, locals, failure, ghost, snap>>

\* chain != nullptr, then chain->m_hash == hash; 'miss' is where an
\* exhausted chain leads
ScanTest(t, miss) ==
    /\ Running(t, "test")
    /\ IF chain[t] = NULL THEN Goto(t, miss)
       ELSE IF Chunk(chain[t]).m_hash = hash(t) THEN Goto(t, "hit")
       ELSE Goto(t, "next")
    /\ UNCHANGED <<shared, m_ctor_mtx, life, alloc_blocks, locals, failure, ghost, snap>>

\* chain = chain->mp_hash_next
ScanNext(t) ==
    /\ Running(t, "next")
    /\ chain' = [chain EXCEPT ![t] = Chunk(chain[t]).mp_hash_next]
    /\ Goto(t, "test")
    /\ UNCHANGED <<shared, m_ctor_mtx, life, alloc_blocks, op, str, after, new_chunk,
                   failure, ghost, snap>>

\* return Name{ c }: the constructor, then the caller holds the handle
Return(t, c) ==
    /\ IF NameAsserts(c)
         THEN /\ last' = [last EXCEPT ![t] = [op |-> op[t], str |-> str[t],
                                                h |-> NameOf(c), chunk |-> c]]
              /\ Goto(t, "idle")
              /\ UNCHANGED failure
         ELSE /\ Fail("AssertFailed")
              /\ UNCHANGED <<pc, last>>
    /\ op' = [op EXCEPT ![t] = "none"]
    /\ str' = [str EXCEPT ![t] = <<>>]
    /\ after' = [after EXCEPT ![t] = 0]
    /\ chain' = [chain EXCEPT ![t] = NULL]
    /\ new_chunk' = [new_chunk EXCEPT ![t] = NULL]
    /\ UNCHANGED <<shared, alloc_blocks, calls>>

ScanHit(t) ==
    /\ Running(t, "hit")
    /\ Return(t, chain[t])
    /\ UNCHANGED <<m_ctor_mtx, life, snap>>

find_head(t) == op[t] = "find" /\ ScanHead(t)

find_test(t) == op[t] = "find" /\ ScanTest(t, "notfound")

find_next(t) == op[t] = "find" /\ ScanNext(t)

find_hit(t) == op[t] = "find" /\ ScanHit(t)

\* SYMBL_FAIL("failed to find this name")
find_fail(t) ==
    /\ Running(t, "notfound")
    /\ Fail("NameNotFound")
    /\ UNCHANGED <<shared, m_ctor_mtx, life, alloc_blocks, pc, locals, ghost, snap>>

find_or_add_head(t) == op[t] = "find_or_add" /\ ScanHead(t)

find_or_add_test(t) == op[t] = "find_or_add" /\ ScanTest(t, "lock")

find_or_add_next(t) == op[t] = "find_or_add" /\ ScanNext(t)

find_or_add_hit(t) == op[t] = "find_or_add" /\ ScanHit(t)

(* ---- the locked part of add and find_or_add ---- *)
\* Lock that takes the mutex without waiting for its owner
Lock_NoWait(t) ==
    /\ Running(t, "lock")
    /\ m_ctor_mtx' = t
    /\ snap' = shared
    /\ Goto(t, "slot")
    /\ UNCHANGED <<shared, life, alloc_blocks, locals, failure, ghost>>

\* std::scoped_lock lock{ m_ctor_mtx }
Lock(t) ==
    /\ Running(t, "lock")
    /\ m_ctor_mtx = 0
    /\ m_ctor_mtx' = t
    /\ snap' = shared
    /\ Goto(t, "slot")
    /\ UNCHANGED <<shared, life, alloc_blocks, locals, failure, ghost>>

add_lock(t) == op[t] = "add" /\ Lock(t)

find_or_add_lock(t) == op[t] = "find_or_add" /\ Lock(t)

\* Name::add: slot == nullptr, else the loop to the end of the bucket.
\* chain[t] = NULL afterwards stands for 'the new chunk goes into slot'.
add_slot(t) ==
    /\ Running(t, "slot")
    /\ op[t] = "add"
    /\ LET slot == mp_buckets[bucket(t)]
       IN  IF slot = NULL
             THEN chain' = [chain EXCEPT ![t] = NULL] /\ Goto(t, "add_name")
                  /\ UNCHANGED failure
           ELSE IF add_walk_hits(slot, hash(t))
             THEN Fail("DuplicateName") /\ UNCHANGED <<pc, chain>>
           ELSE chain' = [chain EXCEPT ![t] = ChainTail(slot)] /\ Goto(t, "add_name")
                /\ UNCHANGED failure
    /\ UNCHANGED <<shared, m_ctor_mtx, life, alloc_blocks, op, str, after, new_chunk,
                   ghost, snap>>

\* Name::find_or_add: slot == nullptr, else the empty-bodied loop to the end
find_or_add_slot(t) ==
    /\ Running(t, "slot")
    /\ op[t] = "find_or_add"
    /\ LET slot == mp_buckets[bucket(t)]
       IN  chain' = [chain EXCEPT ![t] = IF slot = NULL THEN NULL ELSE ChainTail(slot)]
    /\ Goto(t, "add_name")
    /\ UNCHANGED <<shared, m_ctor_mtx, life, alloc_blocks, op, str, after, new_chunk,
                   failure, ghost, snap>>

(* ---- NameAllocator::add_name, one step per write ---- *)
\* m_arena_fill + entry_size >= MAX_ARENA_SIZE
add_name(t) ==
    /\ Running(t, "add_name")
    /\ IF m_arena_fill + entry_size(t) >= MAX_ARENA_SIZE
         THEN Goto(t, "alloc")
         ELSE Goto(t, "w_next")
    /\ UNCHANGED <<shared, m_ctor_mtx, life, alloc_blocks, locals, failure, ghost, snap>>

\* do_allocate_arena that counts the new arena before it has the block
do_allocate_arena_CountFirst(t, blk) ==
    /\ Running(t, "alloc")
    /\ IF m_arena_count + 1 > MAX_ARENA_COUNT
         THEN /\ Fail("ArenaExhausted")
              /\ UNCHANGED <<pc, mp_arenas, alloc_blocks, m_arena_count>>
       ELSE IF blk = NULL
         THEN /\ Fail("AllocationFailure")
              /\ m_arena_count' = m_arena_count + 1
              /\ UNCHANGED <<pc, mp_arenas, alloc_blocks>>
       ELSE /\ mp_arenas' = [mp_arenas EXCEPT ![m_arena_count] = blk]
            /\ alloc_blocks' = alloc_blocks + 1
            /\ Goto(t, "alloc_count")
            /\ UNCHANGED <<failure, m_arena_count>>
    /\ UNCHANGED <<m_arena_fill, mp_buckets, mem, m_ctor_mtx, life, locals, ghost, snap>>

\* do_allocate_arena without the test against MAX_ARENA_COUNT
do_allocate_arena_Unbounded(t, blk) ==
    /\ Running(t, "alloc")
    /\ IF blk = NULL
         THEN /\ Fail("AllocationFailure")
              /\ UNCHANGED <<pc, mp_arenas, alloc_blocks>>
       ELSE /\ mp_arenas' = [mp_arenas EXCEPT ![m_arena_count] = blk]
            /\ alloc_blocks' = alloc_blocks + 1
            /\ Goto(t, "alloc_count")
            /\ UNCHANGED failure
    /\ UNCHANGED <<m_arena_count, m_arena_fill, mp_buckets, mem, m_ctor_mtx, life,
                   locals, ghost, snap>>

\* do_allocate_arena up to mp_arenas[m_arena_count] = new_arena; 'blk' is
\* what IAllocator::allocate returns.  A false return is SYMBL_FAIL in add_name.
do_allocate_arena(t, blk) ==
    /\ Running(t, "alloc")
    /\ IF m_arena_count + 1 > MAX_ARENA_COUNT
         THEN /\ Fail("ArenaExhausted")
              /\ UNCHANGED <<pc, mp_arenas, alloc_blocks>>
       ELSE IF blk = NULL
         THEN /\ Fail("AllocationFailure")
              /\ UNCHANGED <<pc, mp_arenas, alloc_blocks>>
       ELSE /\ mp_arenas' = [mp_arenas EXCEPT ![m_arena_count] = blk]
            /\ alloc_blocks' = alloc_blocks + 1
            /\ Goto(t, "alloc_count")
            /\ UNCHANGED failure
    /\ UNCHANGED <<m_arena_count, m_arena_fill, mp_buckets, mem, m_ctor_mtx, life,
                   locals, ghost, snap>>

\* m_arena_count++
do_allocate_arena_count(t) ==
    /\ Running(t, "alloc_count")
    /\ m_arena_count' = m_arena_count + 1
    /\ Goto(t, "alloc_fill")
    /\ UNCHANGED <<m_arena_fill, mp_arenas, mp_buckets, mem, m_ctor_mtx, life,
                   alloc_blocks, locals, failure, ghost, snap>>

\* m_arena_fill = 0u
do_allocate_arena_fill(t) ==
    /\ Running(t, "alloc_fill")
    /\ m_arena_fill' = 0
    /\ Goto(t, "w_next")
    /\ UNCHANGED <<m_arena_count, mp_arenas, mp_buckets, mem, m_ctor_mtx, life,
                   alloc_blocks, locals, failure, ghost, snap>>

\* a write of one field of *new_chunk
WriteField(t, p, f, v, q) ==
    /\ Running(t, p)
    /\ mem' = MemWrite(new_chunk[t], f, v)
    /\ Goto(t, q)
    /\ UNCHANGED <<m_arena_count, m_arena_fill, mp_arenas, mp_buckets, m_ctor_mtx, life,
                   alloc_blocks, locals, failure, ghost, snap>>

\* add_name_next that also links the chunk, before its other fields are written
add_name_next_Publish(t) ==
    /\ Running(t, "w_next")
    /\ LET c == ArenaAt(m_arena_count - 1) + m_arena_fill
       IN  /\ new_chunk' = [new_chunk EXCEPT ![t] = c]
           /\ IF chain[t] = NULL
                THEN /\ mp_buckets' = [mp_buckets EXCEPT ![bucket(t)] = c]
                     /\ mem' = MemWrite(c, "mp_hash_next", NULL)
                ELSE /\ mem' = [MemWrite(c, "mp_hash_next", NULL)
                                  EXCEPT ![chain[t]].mp_hash_next = c]
                     /\ UNCHANGED mp_buckets
    /\ Goto(t, "w_hash")
    /\ UNCHANGED <<m_arena_count, m_arena_fill, mp_arenas, m_ctor_mtx, life,
                   alloc_blocks, op, str, after, chain, failure, ghost, snap>>

\* new_chunk = mp_arenas[m_arena_count - 1] + m_arena_fill;
\* new_chunk->mp_hash_next = nullptr
add_name_next(t) ==
    /\ Running(t, "w_next")
    /\ LET c == ArenaAt(m_arena_count - 1) + m_arena_fill
       IN  /\ new_chunk' = [new_chunk EXCEPT ![t] = c]
           /\ mem' = MemWrite(c, "mp_hash_next", NULL)
    /\ Goto(t, "w_hash")
    /\ UNCHANGED <<m_arena_count, m_arena_fill, mp_arenas, mp_buckets, m_ctor_mtx, life,
                   alloc_blocks, op, str, after, chain, failure, ghost, snap>>

\* new_chunk->m_hash = hash
add_name_hash(t) == WriteField(t, "w_hash", "m_hash", hash(t), "w_length")

\* new_chunk->m_length = str.size(), a 9-bit field
add_name_length(t) ==
    WriteField(t, "w_length", "m_length", Len(str[t]) % 512, "w_arena_id")

\* add_name_arena_id that stores the arena count
add_name_arena_id_Count(t) ==
    WriteField(t, "w_arena_id", "m_arena_id", m_arena_count % 65536, "w_flags")

\* new_chunk->m_arena_id = m_arena_count - 1, a 16-bit field
add_name_arena_id(t) ==
    WriteField(t, "w_arena_id", "m_arena_id", (m_arena_count - 1) % 65536, "w_flags")

\* new_chunk->m_flags = 0
add_name_flags(t) == WriteField(t, "w_flags", "m_flags", 0, "w_data")

\* std::copy_n(str.data(), str_size, new_chunk + meta_size): str.size() + 1
\* bytes of the caller's buffer
add_name_data(t) ==
    WriteField(t, "w_data", "m_data", Append(str[t], after[t]), "w_fill")

\* add_name_fill that leaves the cursor where it was
add_name_fill_Stay(t) ==
    /\ Running(t, "w_fill")
    /\ Goto(t, "link")
    /\ UNCHANGED <<shared, m_ctor_mtx, life, alloc_blocks, locals, failure, ghost, snap>>

\* add_name_fill that advances the cursor by the string and the header only,
\* without the byte of the terminator
add_name_fill_NoTerminator(t) ==
    /\ Running(t, "w_fill")
    /\ m_arena_fill' = m_arena_fill + meta_size + Len(str[t])
    /\ Goto(t, "link")
    /\ UNCHANGED <<m_arena_count, mp_arenas, mp_buckets, mem, m_ctor_mtx, life,
                   alloc_blocks, locals, failure, ghost, snap>>

\* m_arena_fill += entry_size
add_name_fill(t) ==
    /\ Running(t, "w_fill")
    /\ m_arena_fill' = m_arena_fill + entry_size(t)
    /\ Goto(t, "link")
    /\ UNCHANGED <<m_arena_count, mp_arenas, mp_buckets, mem, m_ctor_mtx, life,
                   alloc_blocks, locals, failure, ghost, snap>>

(* ---- back in add / find_or_add ---- *)
\* Link that always stores the new chunk in the bucket's slot
Link_Head(t) ==
    /\ Running(t, "link")
    /\ mp_buckets' = [mp_buckets EXCEPT ![bucket(t)] = new_chunk[t]]
    /\ Goto(t, "ret")
    /\ UNCHANGED <<m_arena_count, m_arena_fill, mp_arenas, mem, m_ctor_mtx, life,
                   alloc_blocks, locals, failure, ghost, snap>>

\* slot = <new chunk>, or chain->mp_hash_next = <new chunk>
Link(t) ==
    /\ Running(t, "link")
    /\ IF chain[t] = NULL
         THEN /\ mp_buckets' = [mp_buckets EXCEPT ![bucket(t)] = new_chunk[t]]
              /\ UNCHANGED mem
         ELSE /\ mem' = MemWrite(chain[t], "mp_hash_next", new_chunk[t])
              /\ UNCHANGED mp_buckets
    /\ Goto(t, "ret")
    /\ UNCHANGED <<m_arena_count, m_arena_fill, mp_arenas, m_ctor_mtx, life,
                   alloc_blocks, locals, failure, ghost, snap>>

add_link(t) == op[t] = "add" /\ Link(t)

find_or_add_link(t) == op[t] = "find_or_add" /\ Link(t)

\* InsertReturn that leaves the mutex locked
InsertReturn_KeepLock(t) ==
    /\ Running(t, "ret")
    /\ Return(t, IF chain[t] = NULL THEN mp_buckets[bucket(t)]
                 ELSE Chunk(chain[t]).mp_hash_next)
    /\ snap' = <<>>
    /\ UNCHANGED <<m_ctor_mtx, life>>

\* return Name{ slot } or Name{ chain->mp_hash_next }; the scoped_lock ends
InsertReturn(t) ==
    /\ Running(t, "ret")
    /\ Return(t, IF chain[t] = NULL THEN mp_buckets[bucket(t)]
                 ELSE Chunk(chain[t]).mp_hash_next)
    /\ m_ctor_mtx' = 0
    /\ snap' = <<>>
    /\ UNCHANGED life

add_return(t) == op[t] = "add" /\ InsertReturn(t)

find_or_add_return(t) == op[t] = "find_or_add" /\ InsertReturn(t)

(* ---- end of the process ---- *)
\* the pointers deallocate is called with, for u = from, from + 1, ... < m_arena_count
RECURSIVE DeallocLoop(_)
DeallocLoop(u) ==
    IF u < m_arena_count THEN <<ArenaAt(u)>> \o DeallocLoop(u + 1) ELSE <<>>

\* do_deallocate_arenas whose loop starts at the second arena
do_deallocate_arenas_SkipFirst ==
    /\ freed' = freed \o DeallocLoop(1)
    /\ m_arena_count' = 0
    /\ m_arena_fill' = 0

\* the loop over mp_arenas[0 .. m_arena_count - 1], then both counters to zero
do_deallocate_arenas ==
    /\ freed' = freed \o DeallocLoop(0)
    /\ m_arena_count' = 0
    /\ m_arena_fill' = 0

\* ~NameAllocator of the global g_name_allocator: runs once, when the process
\* exits normally with no call in progress
NameAllocator_dtor ==
    /\ failure = "none"
    /\ alive
    /\ \A t \in Threads : pc[t] = "idle"
    /\ do_deallocate_arenas
    /\ alive' = FALSE
    /\ UNCHANGED <<mp_arenas, mp_buckets, mem, m_ctor_mtx, alloc_blocks, pc,
                   locals, failure, ghost, snap>>

(* ---- the system ---- *)
\* nullptr, or the block IAllocator::allocate hands out next
AllocResults == {NULL, BlockBase(alloc_blocks + 1)}

Next ==
    \/ \E t \in Threads, a \in Args : add_call(t, a[1], a[2])
    \/ \E t \in Threads, a \in Args : find_call(t, a[1], a[2])
    \/ \E t \in Threads, a \in Args : find_or_add_call(t, a[1], a[2])
    \/ \E t \in Threads : find_head(t)
    \/ \E t \in Threads : find_test(t)
    \/ \E t \in Threads : find_next(t)
    \/ \E t \in Threads : find_hit(t)
    \/ \E t \in Threads : find_fail(t)
    \/ \E t \in Threads : find_or_add_head(t)
    \/ \E t \in Threads : find_or_add_test(t)
    \/ \E t \in Threads : find_or_add_next(t)
    \/ \E t \in Threads : find_or_add_hit(t)
    \/ \E t \in Threads : add_lock(t)
    \/ \E t \in Threads : find_or_add_lock(t)
    \/ \E t \in Threads : add_slot(t)
    \/ \E t \in Threads : find_or_add_slot(t)
    \/ \E t \in Threads : add_name(t)
    \/ \E t \in Threads, blk \in AllocResults : do_allocate_arena(t, blk)
    \/ \E t \in Threads : do_allocate_arena_count(t)
    \/ \E t \in Threads : do_allocate_arena_fill(t)
    \/ \E t \in Threads : add_name_next(t)
    \/ \E t \in Threads : add_name_hash(t)
    \/ \E t \in Threads : add_name_length(t)
    \/ \E t \in Threads : add_name_arena_id(t)
    \/ \E t \in Threads : add_name_flags(t)
    \/ \E t \in Threads : add_name_data(t)
    \/ \E t \in Threads : add_name_fill(t)
    \/ \E t \in Threads : add_link(t)
    \/ \E t \in Threads : find_or_add_link(t)
    \/ \E t \in Threads : add_return(t)
    \/ \E t \in Threads : find_or_add_return(t)
    \/ NameAllocator_dtor

Spec == Init /\ [][Next]_vars

(* ---- vocabulary of the properties ---- *)
\* the chunks met by following at most n links from a
RECURSIVE ChainFrom(_, _)
ChainFrom(a, n) ==
    IF a = NULL \/ n = 0 THEN {}
    ELSE {a} \cup ChainFrom(Chunk(a).mp_hash_next, n - 1)

\* following links from a ends at nullptr within n links
RECURSIVE ChainEnds(_, _)
ChainEnds(a, n) ==
    IF a = NULL THEN TRUE
    ELSE IF n = 0 THEN FALSE
    ELSE ChainEnds(Chunk(a).mp_hash_next, n - 1)

ChainOf(b) == ChainFrom(mp_buckets[b], Cardinality(DOMAIN mem) + 1)

\* every chunk reachable from a bucket head
Linked == UNION {ChainOf(b) : b \in Buckets}

HashPresent(b, h) == \E c \in ChainOf(b) : Chunk(c).m_hash = h

\* the string a chunk stores: m_length bytes of m_data
StoredStr(c) == DataBytes(c, Chunk(c).m_length)

CaseVariant(a, b) ==
    /\ Len(a) = Len(b)
    /\ \A i \in 1..Len(a) : to_lower_ascii(a[i]) = to_lower_ascii(b[i])

\* positions of add / find_or_add between the walk to the tail and the link
InsertPcs == {"add_name", "alloc", "alloc_count", "alloc_fill", "w_next", "w_hash",
              "w_length", "w_arena_id", "w_flags", "w_data", "w_fill", "link"}

\* the chunk whose Name the call of t is about to return
Result(t) ==
    IF pc[t] = "hit" THEN chain[t]
    ELSE IF chain[t] = NULL THEN mp_buckets[bucket(t)]
    ELSE Chunk(chain[t]).mp_hash_next

Returning(t) == failure = "none" /\ pc[t] \in {"hit", "ret"}

(* ---- C1 ---- *)
\* C1: an add(s) whose hash is already held by a chunk of its bucket chain,
\* wherever that chunk sits, fails with DuplicateName and creates no chunk:
\* add never gets past its walk of the chain while the hash is present.
C1_AddRejectsPresentHash ==
    \A t \in Threads :
        (op[t] = "add" /\ pc[t] \in InsertPcs) => ~HashPresent(bucket(t), hash(t))

(* ---- C2 ---- *)
\* every call made so far is the first call of its thread and is find_or_add
OnlyFindOrAddSoFar ==
    /\ \A t \in Threads : op[t] \in {"none", "find_or_add"}
                          /\ last[t].op \in {"none", "find_or_add"}
    /\ calls = Cardinality({t \in Threads : op[t] # "none" \/ last[t].op # "none"})

\* C2: when threads call find_or_add concurrently, in any interleaving there is
\* at most one chunk per hash value, and calls with hash-equal strings return
\* equal handles.
C2_OneChunkPerHash ==
    OnlyFindOrAddSoFar =>
        /\ \A c1, c2 \in Linked : Chunk(c1).m_hash = Chunk(c2).m_hash => c1 = c2
        /\ \A t1, t2 \in Threads :
              (last[t1].op # "none" /\ last[t2].op # "none"
               /\ HashOf[last[t1].str] = HashOf[last[t2].str])
              => NameEq(last[t1].h, last[t2].h)

(* ---- C3 ---- *)
\* C3: a find_or_add(s') made after a find_or_add(s) of the same thread has
\* returned, s' a case variant of s, returns an equal handle; both strings
\* have the same hash and both handles read the same content.
C3_CaseVariantsSameHandle ==
    \A t \in Threads :
        (Returning(t) /\ op[t] = "find_or_add" /\ last[t].op = "find_or_add"
         /\ CaseVariant(last[t].str, str[t]))
        => /\ hash_ascii_ci(last[t].str) = hash_ascii_ci(str[t])
           /\ NameEq(NameOf(Result(t)), last[t].h)
           /\ NameStr(NameOf(Result(t))) = NameStr(last[t].h)

(* ---- C4 ---- *)
\* C4: after add(s) has returned h, the content of h is s exactly and a later
\* find(s) returns a handle equal to h.
C4_AddThenFindRoundTrip ==
    \A t \in Threads :
        /\ last[t].op = "add" => NameStr(last[t].h) = last[t].str
        /\ (Returning(t) /\ op[t] = "find" /\ last[t].op = "add" /\ last[t].str = str[t])
           => NameEq(NameOf(Result(t)), last[t].h)

C6_HandleEqualIffSameChunk ==
    /\ \A c1, c2 \in Linked : NameEq(NameOf(c1), NameOf(c2)) <=> c1 = c2
    /\ \A t \in Threads : \A c \in Linked :
          last[t].op # "none" => (NameEq(last[t].h, NameOf(c)) <=> last[t].chunk = c)
    /\ \A t1, t2 \in Threads :
          (last[t1].op # "none" /\ last[t2].op # "none")
          => /\ NameEq(last[t1].h, last[t2].h) <=> last[t1].chunk = last[t2].chunk
             /\ Chunk(last[t1].chunk).m_hash # Chunk(last[t2].chunk).m_hash
                => ~NameEq(last[t1].h, last[t2].h)

\* two threads hold handles with one offset and different arena indices
C6_Witness ==
    \E t1, t2 \in Threads :
        /\ last[t1].op # "none" /\ last[t2].op # "none"
        /\ last[t1].h.m_offset = last[t2].h.m_offset
        /\ last[t1].h.m_arena_index # last[t2].h.m_arena_index
        /\ last[t1].chunk # last[t2].chunk

(* ---- C7 ---- *)
\* what a handle lets its holder read
Fields(c) ==
    [m_hash |-> Chunk(c).m_hash, m_length |-> Chunk(c).m_length,
     m_arena_id |-> Chunk(c).m_arena_id, content |-> StoredStr(c)]

\* C7: in every step, a handle that a thread holds designates the same chunk
\* before and after, and hash, length, arena id and content of that chunk and
\* of every linked chunk are the same before and after.
C7_HandlesStayValid ==
    [][ /\ \A t \in Threads : \A h \in {last[t].h} : \A c \in {last[t].chunk} :
              last[t].op # "none"
              => /\ get_entry(h) = c
                 /\ (get_entry(h))' = c
                 /\ (Fields(c))' = Fields(c)
        /\ \A c \in Linked : (Fields(c))' = Fields(c) /\ (NameOf(c))' = NameOf(c)
      ]_vars

\* a thread holds a handle into the first arena, reading the string it
\* interned, after a chunk has been linked in a later arena
C7_Witness ==
    \E t \in Threads : \E c \in Linked :
        /\ last[t].op \in {"add", "find_or_add"}
        /\ last[t].h.m_arena_index = 0
        /\ Chunk(c).m_arena_id > 0
        /\ CaseVariant(NameStr(last[t].h), last[t].str)

(* ---- C8 ---- *)
\* c holds everything add_name writes, and its arena is registered
FullyWritten(c) ==
    /\ c \in DOMAIN mem
    /\ \A t \in Threads :
          pc[t] \in {"w_hash", "w_length", "w_arena_id", "w_flags", "w_data"}
          => new_chunk[t] # c
    /\ Len(Chunk(c).m_data) = Chunk(c).m_length + 1
    /\ Chunk(c).m_hash = hash_ascii_ci(StoredStr(c))
    /\ Chunk(c).m_arena_id < m_arena_count
    /\ ArenaAt(Chunk(c).m_arena_id) # NULL
    /\ c >= ArenaAt(Chunk(c).m_arena_id)
    /\ c < ArenaAt(Chunk(c).m_arena_id) + MAX_ARENA_SIZE

ScanPcs == {"test", "next", "hit"}

\* C8: with the writes of an insertion taken one at a time in program order,
\* as long as the allocator lives every chunk reachable from a bucket head is
\* fully written with its arena registered, every chain ends at nullptr
\* without a cycle, and the chunk a lock-free scan stands on or returns is
\* fully written.
C8_LinkedChunksComplete ==
    alive =>
        /\ \A c \in Linked : FullyWritten(c)
        /\ \A b \in Buckets : ChainEnds(mp_buckets[b], Cardinality(DOMAIN mem))
        /\ \A t \in Threads :
              (pc[t] \in ScanPcs /\ chain[t] # NULL) => FullyWritten(chain[t])

\* a scan stands on a chunk of a bucket while another thread is in the middle
\* of writing a chunk for that bucket
C8_Witness ==
    \E t, u \in Threads :
        /\ failure = "none"
        /\ pc[t] \in ScanPcs /\ chain[t] # NULL
        /\ pc[u] \in {"w_hash", "w_length", "w_arena_id", "w_flags", "w_data"}
        /\ bucket(t) = bucket(u)

(* ---- C9 ---- *)
\* the next step of the call thread t is running
ThreadStep(t) ==
    \/ find_head(t) \/ find_test(t) \/ find_next(t) \/ find_hit(t) \/ find_fail(t)
    \/ find_or_add_head(t) \/ find_or_add_test(t) \/ find_or_add_next(t)
    \/ find_or_add_hit(t)
    \/ add_lock(t) \/ find_or_add_lock(t) \/ add_slot(t) \/ find_or_add_slot(t)
    \/ add_name(t) \/ (\E blk \in AllocResults : do_allocate_arena(t, blk))
    \/ do_allocate_arena_count(t) \/ do_allocate_arena_fill(t)
    \/ add_name_next(t) \/ add_name_hash(t) \/ add_name_length(t)
    \/ add_name_arena_id(t) \/ add_name_flags(t) \/ add_name_data(t)
    \/ add_name_fill(t)
    \/ add_link(t) \/ find_or_add_link(t) \/ add_return(t) \/ find_or_add_return(t)

\* C9: a thread inside find, or inside the scan or the hit path of
\* find_or_add, can always take its next step, whoever holds the mutex; a
\* thread that cannot step is an add or a find_or_add after a miss, waiting
\* for a mutex another thread holds.
C9_LookupsNeverWait ==
    failure = "none" =>
        \A t \in Threads :
            /\ pc[t] \in {"head", "test", "next", "hit", "notfound"}
               => ENABLED ThreadStep(t)
            /\ (pc[t] # "idle" /\ ~ENABLED ThreadStep(t))
               => /\ pc[t] = "lock"
                  /\ op[t] \in {"add", "find_or_add"}
                  /\ m_ctor_mtx \notin {0, t}

\* a find_or_add is about to return the chunk it found while another thread
\* is in the section guarded by the mutex
C9_Witness ==
    \E t, u \in Threads :
        /\ failure = "none"
        /\ op[t] = "find_or_add" /\ pc[t] = "hit"
        /\ m_ctor_mtx = u /\ u # t

(* ---- C10 ---- *)
\* C10: when an insertion has failed for want of an arena (ArenaExhausted or
\* AllocationFailure), arena count, arena table, fill cursor, bucket heads and
\* all chunks are what they were when the failing call took the mutex.
C10_FailedArenaLeavesPool ==
    failure \in {"ArenaExhausted", "AllocationFailure"} => shared = snap

\* an insertion into a non-empty index has failed with every arena in use
C10_Witness ==
    /\ failure = "ArenaExhausted"
    /\ m_arena_count = MAX_ARENA_COUNT
    /\ Linked # {}
    /\ \E t \in Threads : pc[t] = "alloc" /\ m_ctor_mtx = t

(* ---- C11 ---- *)
\* C11: whenever a thread is in a call whose string has a non-ASCII byte or
\* MAX_LENGTH or more bytes, the process has failed with InvalidInput, the
\* thread never left the entry of the call and does not own the mutex, and the
\* step that made the call left arena count, arena table, fill cursor, bucket
\* heads, chunks, mutex and block source as they were.
C11_InvalidInputFailsFirst ==
    [][ \A t \in Threads :
          (op'[t] # "none" /\ str'[t] \in InvalidStrings)
          => /\ failure' = "InvalidInput"
             /\ pc'[t] = "idle"
             /\ m_ctor_mtx' # t
             /\ failure = "none" => UNCHANGED <<shared, m_ctor_mtx, alloc_blocks>>
      ]_vars

\* an insertion called with an invalid string has failed while names are
\* interned and another thread owns the mutex
C11_Witness ==
    \E t, u \in Threads :
        /\ failure = "InvalidInput"
        /\ op[t] \in {"add", "find_or_add"}
        /\ str[t] \in InvalidStrings
        /\ Linked # {}
        /\ m_ctor_mtx = u

(* ---- C12 ---- *)
\* C12: in every state the arena count is at most MAX_ARENA_COUNT and, while
\* the allocator lives, at least 1; the fill cursor is at most MAX_ARENA_SIZE;
\* the blocks obtained from the block source and not given back are at most
\* MAX_ARENA_COUNT; and every chunk lies in one of these blocks, so interned
\* memory is at most MAX_ARENA_COUNT * MAX_ARENA_SIZE bytes.
C12_PoolBounded ==
    /\ m_arena_count <= MAX_ARENA_COUNT
    /\ alive => m_arena_count >= 1
    /\ m_arena_fill >= 0
    /\ m_arena_fill <= MAX_ARENA_SIZE
    /\ alloc_blocks - Len(freed) <= MAX_ARENA_COUNT
    /\ \A c \in DOMAIN mem :
          \E i \in 0..(MAX_ARENA_COUNT - 1) :
              /\ ArenaAt(i) # NULL
              /\ c >= ArenaAt(i)
              /\ c + meta_size + Len(Chunk(c).m_data) <= ArenaAt(i) + MAX_ARENA_SIZE

\* every arena is in use, the last one holds chunks, and a further insertion
\* has been refused
C12_Witness ==
    /\ alive
    /\ m_arena_count = MAX_ARENA_COUNT
    /\ alloc_blocks = MAX_ARENA_COUNT
    /\ m_arena_fill > 0
    /\ failure = "ArenaExhausted"

(* ---- C13 ---- *)
\* C13: before the destructor has run no pointer has been passed to
\* deallocate; after it, every block the block source handed out (the initial
\* arena and every arena opened later) has been passed to deallocate exactly
\* once, nothing else has, and arena count and fill cursor are 0.
C13_TeardownFreesEachBlockOnce ==
    /\ alive => freed = <<>>
    /\ ~alive =>
          /\ Len(freed) = alloc_blocks
          /\ \A k \in 1..alloc_blocks :
                Cardinality({i \in 1..Len(freed) : freed[i] = BlockBase(k)}) = 1
          /\ m_arena_count = 0
          /\ m_arena_fill = 0

\* the destructor has run on a pool that had opened every arena
C13_Witness ==
    /\ ~alive
    /\ alloc_blocks = MAX_ARENA_COUNT
    /\ Len(freed) = MAX_ARENA_COUNT
    /\ Linked # {}

(* ---- C14 ---- *)
\* the chain that starts at a in memory m, as the sequence of its chunks
RECURSIVE SeqFrom(_, _, _)
SeqFrom(m, a, n) ==
    IF a = NULL \/ n = 0 THEN <<>>
    ELSE <<a>> \o SeqFrom(m, IF a \in DOMAIN m THEN m[a].mp_hash_next ELSE NULL, n - 1)

ChainSeq(b) == SeqFrom(mem, mp_buckets[b], Cardinality(DOMAIN mem) + 1)

\* the chain of bucket b when the owner of the mutex took it
ChainSeqAtLock(b) == SeqFrom(snap[5], snap[4][b], Cardinality(DOMAIN snap[5]) + 1)

IsPrefix(p, q) == Len(p) <= Len(q) /\ SubSeq(q, 1, Len(p)) = p

\* C14: in every step the chain of each bucket before the step is a prefix of
\* its chain after the step; a chain changes only in the linking step of an
\* insertion into that bucket, which appends the new chunk (as the head when
\* the bucket was empty, behind the tail otherwise); and when an insertion
\* returns, the chain of its bucket is the chain it found when it took the
\* mutex plus the returned chunk, and every other chain is as it was then.
C14_ChainsAppendOnly ==
    [][ /\ \A b \in Buckets : \A before \in {ChainSeq(b)} :
              /\ IsPrefix(before, (ChainSeq(b))')
              /\ (ChainSeq(b))' # before
                 => \E t \in Threads :
                       /\ pc[t] = "link" /\ pc'[t] = "ret"
                       /\ bucket(t) = b
                       /\ Chunk(new_chunk[t]).m_hash = hash(t)
                       /\ (ChainSeq(b))' = Append(before, new_chunk[t])
                       /\ before = <<>> => mp_buckets'[b] = new_chunk[t]
                       /\ before # <<>>
                          => Chunk(before[Len(before)])'.mp_hash_next = new_chunk[t]
        /\ \A t \in Threads :
              (pc[t] = "ret" /\ pc'[t] = "idle")
              => \A b \in Buckets :
                    ChainSeq(b) = IF b = bucket(t)
                                    THEN Append(ChainSeqAtLock(b), last'[t].chunk)
                                    ELSE ChainSeqAtLock(b)
      ]_vars

\* a chunk has been appended behind the tail of one chain while another
\* bucket holds a chain of its own
C14_Witness ==
    \E b1, b2 \in Buckets :
        /\ b1 # b2
        /\ Len(ChainSeq(b1)) >= 2
        /\ Len(ChainSeq(b2)) >= 1

(* ---- C15 ---- *)
\* C15: the test at the head of add_name sends an insertion of a chunk of
\* entry_size bytes to do_allocate_arena exactly when the space left in the
\* current arena, MAX_ARENA_SIZE - m_arena_fill, is less than entry_size; a
\* chunk that fits the space left exactly goes into the current arena.
C15_NewArenaIffTooSmall ==
    [][ \A t \in Threads :
          (pc[t] = "add_name" /\ pc'[t] # "add_name")
          => (pc'[t] = "alloc" <=> MAX_ARENA_SIZE - m_arena_fill < entry_size(t))
      ]_vars

(* ---- C16 ---- *)
\* positions of add_name between the first write into the new chunk and the
\* advance of the fill cursor
WritePcs == {"w_hash", "w_length", "w_arena_id", "w_flags", "w_data", "w_fill"}

\* the chunks add_name has finished
Placed == DOMAIN mem \ {new_chunk[t] : t \in {u \in Threads : pc[u] \in WritePcs}}

\* bytes a chunk occupies: header, m_length bytes, terminator
ChunkBytes(c) == meta_size + Chunk(c).m_length + 1

\* the finished chunks lying in the block of arena i
InArena(i) ==
    {c \in Placed : c >= ArenaAt(i) /\ c < ArenaAt(i) + MAX_ARENA_SIZE}

\* offset of the first byte behind the chunks of arena i
EndOf(i) ==
    IF InArena(i) = {} THEN 0
    ELSE (CHOOSE c \in InArena(i) : \A d \in InArena(i) : d <= c)
         + ChunkBytes(CHOOSE c \in InArena(i) : \A d \in InArena(i) : d <= c)
         - ArenaAt(i)

\* C16: while the allocator lives, every finished chunk lies in one counted
\* arena and ends inside it; the chunks of an arena do not overlap and are
\* laid out back to back from offset 0; the fill cursor is the end of the
\* last chunk of the current arena, except between the two stores
\* m_arena_count++ and m_arena_fill = 0 of do_allocate_arena; and a chunk
\* being written starts at the fill cursor of the current arena.
C16_ChunksPacked ==
    alive =>
        /\ \A c \in Placed : \E i \in 0..(m_arena_count - 1) : c \in InArena(i)
        /\ \A i \in 0..(m_arena_count - 1) :
              /\ \A c \in InArena(i) :
                    /\ (c - ArenaAt(i)) + ChunkBytes(c) <= MAX_ARENA_SIZE
                    /\ c = ArenaAt(i) \/ \E d \in InArena(i) : d + ChunkBytes(d) = c
              /\ \A c, d \in InArena(i) :
                    c # d => (c + ChunkBytes(c) <= d \/ d + ChunkBytes(d) <= c)
        /\ (\A t \in Threads : pc[t] # "alloc_fill")
           => m_arena_fill = EndOf(m_arena_count - 1)
        /\ \A t \in Threads :
              pc[t] \in WritePcs
              => new_chunk[t] = ArenaAt(m_arena_count - 1) + m_arena_fill

\* no insertion is under way, the first arena holds two chunks and the
\* second arena one
C16_Witness ==
    /\ alive
    /\ m_ctor_mtx = 0
    /\ m_arena_count = 2
    /\ Cardinality(InArena(0)) = 2
    /\ Cardinality(InArena(1)) = 1

(* ---- C17 ---- *)
\* positions inside the scope of the scoped_lock
LockedPcs == {"slot", "ret"} \cup InsertPcs

\* C17: in every step, at most one thread is inside the scope of the
\* scoped_lock of add or find_or_add and it is the owner of the mutex; and
\* while the allocator lives, a step that changes a bucket head, a chunk, the
\* arena table, the arena count or the fill cursor is a step of the thread
\* that owns the mutex before and after the step.
C17_WritesUnderLock ==
    [][ /\ \A t, u \in Threads :
              (pc[t] \in LockedPcs /\ pc[u] \in LockedPcs) => t = u
        /\ \A t \in Threads : pc[t] \in LockedPcs <=> m_ctor_mtx = t
        /\ (shared' # shared /\ alive')
           => \E t \in Threads :
                 /\ m_ctor_mtx = t /\ m_ctor_mtx' = t
                 /\ pc[t] \in LockedPcs
                 /\ pc'[t] # pc[t]
                 /\ \A u \in Threads \ {t} : pc'[u] = pc[u]
      ]_vars

\* the owner of the mutex is about to link its chunk while another thread
\* waits for the mutex
C17_Witness ==
    \E t, u \in Threads :
        /\ failure = "none"
        /\ m_ctor_mtx = t /\ pc[t] = "link"
        /\ pc[u] = "lock"

(* ---- C18 ---- *)
\* every thread the scheduler can run is run eventually: a thread whose next
\* step stays possible takes it
FairSpec == Spec /\ \A t \in Threads : WF_vars(ThreadStep(t))

C19_HandleMatchesChunk ==
    alive =>
        /\ failure # "AssertFailed"
        /\ \A c \in Placed :
              /\ Chunk(c).m_arena_id < m_arena_count
              /\ Chunk(c).m_arena_id < 256
              /\ c \in InArena(Chunk(c).m_arena_id)
              /\ NameOf(c).m_arena_index = Chunk(c).m_arena_id
              /\ NameOf(c).m_offset = c - ArenaAt(Chunk(c).m_arena_id)
              /\ NameOf(c).m_offset >= 0
              /\ NameOf(c).m_offset < MAX_ARENA_SIZE
              /\ NameAsserts(c)
              /\ get_entry(NameOf(c)) = c
        /\ \A t \in Threads :
              last[t].op # "none"
              => /\ last[t].chunk \in Placed
                 /\ last[t].h = NameOf(last[t].chunk)
                 /\ get_entry(last[t].h) = last[t].chunk

\* a thread holds the handle of a chunk that is not the first chunk of an
\* arena opened after the initial one
C19_Witness ==
    \E t \in Threads :
        /\ last[t].op # "none"
        /\ last[t].h.m_arena_index > 0
        /\ last[t].h.m_offset > 0
        /\ Chunk(last[t].chunk).m_arena_id = last[t].h.m_arena_index

(* ---- C20 ---- *)
\* C20: once add_name has copied the string of an insertion, whatever byte
\* follows the string in the caller's buffer, the new chunk holds the bytes of
\* the string as given, then a zero byte at position length, and its length
\* field is the length of the string; every finished chunk ends in a zero
\* byte at position m_length.
C20_StoredStringTerminated ==
    /\ \A t \in Threads :
          pc[t] \in {"w_fill", "link", "ret"}
          => /\ Chunk(new_chunk[t]).m_length = Len(str[t])
             /\ DataBytes(new_chunk[t], Len(str[t])) = str[t]
             /\ DataBytes(new_chunk[t], Len(str[t]) + 1)[Len(str[t]) + 1] = 0
    /\ \A c \in Placed :
          DataBytes(c, Chunk(c).m_length + 1)[Chunk(c).m_length + 1] = 0

====
